---- MODULE Spec2Model ----
(***************************************************************************)
(* The ERP dashboard: the aggregation endpoint GET /api/odoo (route        *)
(* handler), the remote API client it uses (lib/odoo.js) and the           *)
(* Dashboard page's client-side state and derived KPI.                     *)
(*                                                                         *)
(* Money is counted in pence (integers).  A quotient is kept as a reduced  *)
(* fraction [num, den]; den = 0 is the result of a division by zero        *)
(* (NaN or an infinity in the program).                                    *)
(***************************************************************************)
EXTENDS Integers, Sequences, FiniteSets, Bags, TLC

VARIABLES
    env,            \* process.env: which settings are set (non-empty)
    erp,            \* the records held by the ERP
    req,            \* the request being handled: its type and id parameters
    pc,             \* "idle" | "auth" (authenticate in flight) | "exec" (execute_kw in flight) | "done"
    query,          \* the odooSearchRead call in progress
    mainPartner,    \* local of the stats branch: partners[0]
    calls,          \* the remote procedure calls sent while handling the request
    resp,           \* the response returned by GET
    browser,        \* the page's environment: its time zone and its locale
    data,           \* Dashboard state: the fetched statistics, or NoData (null)
    loading,        \* Dashboard state
    error,          \* Dashboard state: the error message, or NoError (null)
    viewBy,         \* Dashboard state: YearView ('year') or a period index 0..11
    selectedYear,   \* Dashboard state
    invoiceId,      \* Dashboard state: the selected invoice, or NoInvoice (null)
    invoiceLines,   \* Dashboard state: [set, lines]; set = FALSE is null
    loadingInvoice, \* Dashboard state
    fetches,        \* the bag of the page's fetch calls that have not settled yet
    settled,        \* the fetchInvoiceDetails call that settled last: how it ended ("" none yet, "ok" or the cause of its failure) and the id it was called with
    ops             \* the operations a caller of the API client started, with their outcomes

serverVars == <<env, erp, req, pc, query, mainPartner, calls, resp>>

pageVars ==
    <<browser, data, loading, error, viewBy, selectedYear, invoiceId, invoiceLines,
      loadingInvoice, fetches, settled>>

clientVars == <<ops>>

vars == <<serverVars, pageVars, clientVars>>

(***************************************************************************)
(* Bounds of the model.                                                    *)
(***************************************************************************)
MaxInv == 3         \* at most this many account.move records in the ERP
MaxLines == 2       \* at most this many account.move.line records in the ERP
MaxMissing == 1     \* at most this many settings are unset
MaxFetches == 2     \* at most this many fetch calls of the page are in flight
MaxOps == 3         \* at most this many operations are started by a caller of the API client

(***************************************************************************)
(* Numbers.                                                                *)
(***************************************************************************)
Abs(x) == IF x < 0 THEN -x ELSE x

Sign(x) == IF x < 0 THEN -1 ELSE IF x > 0 THEN 1 ELSE 0

RECURSIVE Gcd(_, _)
Gcd(a, b) == IF b = 0 THEN a ELSE Gcd(b, a % b)

\* The JavaScript quotient a / b of two integers, as a reduced fraction.
\* b = 0 gives NaN (0/0) or an infinity (1/0, -1/0).
Div(a, b) ==
    IF b = 0 THEN [num |-> Sign(a), den |-> 0]
    ELSE LET g == Gcd(Abs(a), Abs(b))
         IN  [num |-> (Sign(b) * a) \div g, den |-> Abs(b) \div g]

Num(n) == [num |-> n, den |-> 1]

\* Number(x).toFixed(2) of an amount that is a whole number of pence.
ToFixed2(p) == [neg |-> p < 0, int |-> Abs(p) \div 100, frac |-> Abs(p) % 100]

(***************************************************************************)
(* Sequences.                                                              *)
(***************************************************************************)
RECURSIVE SumSeq(_)
SumSeq(s) == IF s = <<>> THEN 0 ELSE Head(s) + SumSeq(Tail(s))

RECURSIVE Concat(_)
Concat(ss) == IF ss = <<>> THEN <<>> ELSE Head(ss) \o Concat(Tail(ss))

Take(s, n) == IF Len(s) <= n THEN s ELSE SubSeq(s, 1, n)

MinId(S) == CHOOSE r \in S : \A o \in S : r.id <= o.id

\* The records of S as a list, in the ERP's default order (by id).
RECURSIVE ById(_)
ById(S) == IF S = {} THEN <<>> ELSE <<MinId(S)>> \o ById(S \ {MinId(S)})

(***************************************************************************)
(* Configuration (process.env).                                            *)
(***************************************************************************)
OdooSettings == {"ODOO_URL", "ODOO_DB", "ODOO_USERNAME", "ODOO_PASSWORD"}

Settings == OdooSettings \cup {"ODOO_CUSTOMER_REF"}

\* e[s] is TRUE when setting s is set to a non-empty string.
Envs == {e \in [Settings -> BOOLEAN] : Cardinality({s \in Settings : ~e[s]}) <= MaxMissing}

\* getOdooConfig returns normally (does not throw).
getOdooConfig(e) ==
    e["ODOO_URL"] /\ e["ODOO_DB"] /\ e["ODOO_USERNAME"] /\ e["ODOO_PASSWORD"]

MissingOdooEnv == "Missing Odoo environment variables"

(***************************************************************************)
(* The ERP's records.  A many2one field is <<id, display name>>, or <<>>   *)
(* where the ERP returns false.  A date is the ISO day [y, m, d].          *)
(***************************************************************************)
NoDate == [y |-> 0, m |-> 0, d |-> 0]

Day(y, m, d) == [y |-> y, m |-> m, d |-> d]

CustomerName == "ACME Ltd"

Partner == [id |-> 42, name |-> CustomerName, child_ids |-> <<>>]

NoPartner == [id |-> 0, name |-> "", child_ids |-> <<>>]

Move(id, type, state, date, total, ship, owned) ==
    [id |-> id, name |-> <<"INV", id>>, invoice_date |-> date, amount_total |-> total,
     partner_shipping_id |-> ship, move_type |-> type, state |-> state,
     ofCustomer |-> owned]

Leeds == <<"43", "ACME Ltd, Leeds Depot">>

York == <<"44", "ACME Ltd, Y">>

Hull == <<"45", "ACME Ltd, Northern Regional Distribution Centre, Hull">>

\* The account.move records the ERP may hold.
MovePool ==
    { Move(1, "out_invoice", "posted", Day(2026, 4, 15), 10000, Hull, TRUE),
      Move(2, "out_invoice", "posted", Day(2026, 9, 30), 5000, York, TRUE),
      Move(3, "out_refund",  "posted", Day(2027, 1, 1), -3000, <<>>, TRUE),
      Move(4, "out_refund",  "posted", Day(2026, 3, 31), 3000, Leeds, TRUE),
      Move(5, "out_invoice", "posted", Day(2027, 4, 1), -2000, Leeds, TRUE),
      Move(6, "out_invoice", "draft",  Day(2026, 5, 5), 7000, York, TRUE) }

Line(id, move, name, product, qty, unit, subtotal, display, inTab) ==
    [id |-> id, move_id |-> move, name |-> name, product_id |-> product,
     quantity |-> qty, price_unit |-> unit, price_subtotal |-> subtotal,
     discount |-> 0, display_type |-> display, account_id |-> <<"400", "Sales">>,
     inInvoiceTab |-> inTab]

\* The account.move.line records the ERP may hold, all of move 1.  display_type
\* "" is the ERP's false; inInvoiceTab says whether the move lists the line in
\* its invoice_line_ids (journal items such as tax lines are not listed).
LinePool ==
    { Line(11, 1, "Widget", <<"501", "Widget">>, 2, 1000, 2000, "", TRUE),
      Line(12, 1, "Delivery", <<>>, 0, 0, 0, "line_section", TRUE),
      Line(13, 1, "VAT 20%", <<>>, 1, 400, 400, "", FALSE),
      Line(14, 1, "Discount", <<"502", "Discount">>, 1, -500, -500, "", FALSE),
      Line(15, 1, "Carriage", <<"503", "Carriage">>, 1, 900, 900, "", FALSE) }

ErpStates ==
    { [partnerKnown |-> k, moves |-> ms, lines |-> ls] :
        k \in BOOLEAN,
        ms \in {s \in SUBSET MovePool : Cardinality(s) <= MaxInv},
        ls \in {s \in SUBSET LinePool : Cardinality(s) <= MaxLines} }

\* A line belongs to a move the ERP holds.
ErpConsistent(e) == \A l \in e.lines : \E m \in e.moves : m.id = l.move_id

(***************************************************************************)
(* The queries GET issues (model, domain, limit) and the ERP's answer.     *)
(***************************************************************************)
DefaultLimit == 10

StatsLimit == 1000

CutoffYear == 2026

\* A query: the model, the conditions of its domain (a conjunction, each named
\* by the field it tests), the values they compare with, and the limit.
NoQuery == [tag |-> "none", model |-> "", domain |-> {}, arg |-> 0, ids |-> {}, limit |-> 0]

\* odooSearchRead('res.partner', [['ref', '=', customerRef]], ...)
PartnerQuery ==
    [tag |-> "partners", model |-> "res.partner", domain |-> {"ref"}, arg |-> 0, ids |-> {},
     limit |-> DefaultLimit]

\* odooSearchRead('account.move', [partner child_of, move_type in, posted, date >= cutoff], ..., 1000)
InvoicesQuery(partnerId) ==
    [tag |-> "invoices", model |-> "account.move",
     domain |-> {"partner_id", "move_type", "state", "invoice_date"},
     arg |-> partnerId, ids |-> {}, limit |-> StatsLimit]

\* odooSearchRead('account.move', [['id', '=', invoiceIdInt]], ['invoice_line_ids'])
MoveRowsQuery(invoiceIdInt) ==
    [tag |-> "moveRows", model |-> "account.move", domain |-> {"id"},
     arg |-> invoiceIdInt, ids |-> {}, limit |-> DefaultLimit]

\* odooSearchRead('account.move.line', [['id', 'in', lineIds]], ...)
LinesResQuery(lineIds) ==
    [tag |-> "linesRes", model |-> "account.move.line", domain |-> {"id"},
     arg |-> 0, ids |-> lineIds, limit |-> DefaultLimit]

\* Variant: the server-side filtered query without its move_id condition.
SrvLinesQueryAnyMove(invoiceIdInt) ==
    [tag |-> "srvLines", model |-> "account.move.line",
     domain |-> {"display_type", "price_subtotal"},
     arg |-> invoiceIdInt, ids |-> {}, limit |-> DefaultLimit]

\* odooSearchRead('account.move.line', [move_id =, display_type not in, price_subtotal > 0], ...)
SrvLinesQuery(invoiceIdInt) ==
    [tag |-> "srvLines", model |-> "account.move.line",
     domain |-> {"move_id", "display_type", "price_subtotal"},
     arg |-> invoiceIdInt, ids |-> {}, limit |-> DefaultLimit]

\* odooSearchRead('account.move.line', [['move_id', '=', invoiceIdInt]], ...)
RawLinesQuery(invoiceIdInt) ==
    [tag |-> "rawLines", model |-> "account.move.line", domain |-> {"move_id"},
     arg |-> invoiceIdInt, ids |-> {}, limit |-> DefaultLimit]

SectionOrNote == {"line_section", "line_note"}

\* The row of account.move with the field invoice_line_ids.
MoveRow(e, m) ==
    [id |-> m.id,
     invoice_line_ids |-> {l.id : l \in {x \in e.lines : x.move_id = m.id /\ x.inInvoiceTab}}]

\* The records of the ERP that satisfy every condition of the query's domain.
Matching(e, q) ==
    CASE q.model = "res.partner" -> IF e.partnerKnown THEN {Partner} ELSE {}
      [] q.model = "account.move" /\ q.tag = "moveRows" ->
            {MoveRow(e, m) : m \in {x \in e.moves : "id" \in q.domain => x.id = q.arg}}
      [] q.model = "account.move" /\ q.tag # "moveRows" ->
            {m \in e.moves :
                /\ "partner_id" \in q.domain => (m.ofCustomer /\ q.arg = Partner.id)
                /\ "move_type" \in q.domain => m.move_type \in {"out_invoice", "out_refund"}
                /\ "state" \in q.domain => m.state = "posted"
                /\ "invoice_date" \in q.domain => m.invoice_date.y >= CutoffYear}
      [] q.model = "account.move.line" ->
            {l \in e.lines :
                /\ "id" \in q.domain => l.id \in q.ids
                /\ "move_id" \in q.domain => l.move_id = q.arg
                /\ "display_type" \in q.domain => l.display_type \notin SectionOrNote
                /\ "price_subtotal" \in q.domain => l.price_subtotal > 0}
      [] OTHER -> {}

\* The result of execute_kw(..., 'search_read', [domain], {fields, limit}).
SearchRead(e, q) == Take(ById(Matching(e, q)), q.limit)

(***************************************************************************)
(* Requests.  A query parameter is absent (searchParams.get gives null) or *)
(* present with a string value; the id's value is a list of characters.    *)
(***************************************************************************)
Absent(v) == [present |-> FALSE, value |-> v]

Given(v) == [present |-> TRUE, value |-> v]

TypeParams == {Absent(""), Given(""), Given("stats"), Given("invoice"), Given("orders")}

IdParams ==
    {Absent(<<>>), Given(<<>>), Given(<<"1">>), Given(<<"1", "x">>), Given(<<"x">>),
     Given(<<"9">>)}

\* The requests: the id parameter is read by the invoice branch only.
Requests ==
    {[type |-> t, id |-> Absent(<<>>)] : t \in TypeParams}
    \cup {[type |-> Given("invoice"), id |-> i] : i \in IdParams}

NoRequest == [type |-> Absent(""), id |-> Absent(<<>>)]

Digits == {"0", "1", "2", "3", "4", "5", "6", "7", "8", "9"}

DigitValue(c) ==
    CASE c = "0" -> 0 [] c = "1" -> 1 [] c = "2" -> 2 [] c = "3" -> 3 [] c = "4" -> 4
      [] c = "5" -> 5 [] c = "6" -> 6 [] c = "7" -> 7 [] c = "8" -> 8 [] c = "9" -> 9

NaN == -1

\* The value of the leading digits of s read so far (acc), NaN when there are none.
RECURSIVE ParseDigits(_, _)
ParseDigits(s, acc) ==
    IF s = <<>> \/ Head(s) \notin Digits THEN acc
    ELSE ParseDigits(Tail(s), (IF acc = NaN THEN 0 ELSE acc * 10) + DigitValue(Head(s)))

\* parseInt(invoiceId)
parseInt(s) == ParseDigits(s, NaN)

(***************************************************************************)
(* Responses: NextResponse.json(body, {status}).  kind tells which of the  *)
(* three body shapes the body has; an error message is a list of parts.    *)
(***************************************************************************)
NoKpi == [revenue |-> 0, orders |-> 0, items |-> 0, avgOrderValue |-> Num(0)]

NoStats == [customer |-> "", kpi |-> NoKpi, salesByAddress |-> <<>>, recentInvoices |-> <<>>]

NoResponse == [status |-> 0, kind |-> "none", error |-> <<>>, stats |-> NoStats, items |-> <<>>]

ErrorJson(message, status) ==
    [status |-> status, kind |-> "error", error |-> message, stats |-> NoStats, items |-> <<>>]

StatsJson(body) ==
    [status |-> 200, kind |-> "stats", error |-> <<>>, stats |-> body, items |-> <<>>]

ItemsJson(items) ==
    [status |-> 200, kind |-> "items", error |-> <<>>, stats |-> NoStats, items |-> items]

(***************************************************************************)
(* The stats aggregation.                                                  *)
(***************************************************************************)
\* Variant: the credit-note handling takes the absolute value of every amount.
SignedAmountAbsolute(inv) == Abs(inv.amount_total)

\* Variant: the credit-note handling is left out.
SignedAmountRaw(inv) == inv.amount_total

\* The amount of a record after the credit-note handling.
SignedAmount(inv) ==
    IF inv.move_type = "out_refund" THEN -Abs(inv.amount_total) ELSE Abs(inv.amount_total)

\* Array.isArray(inv.partner_shipping_id) ? inv.partner_shipping_id[1] : 'Unknown'
AddressName(inv) ==
    IF inv.partner_shipping_id # <<>> THEN inv.partner_shipping_id[2] ELSE "Unknown"

OrderOf(inv) ==
    [id |-> inv.id, name |-> inv.name, date |-> inv.invoice_date, amount |-> SignedAmount(inv)]

HasKey(sales, key) == \E i \in 1..Len(sales) : sales[i].key = key

\* Variant: the bucket's total adds the amount as the ERP holds it, without the
\* credit-note handling.
AddToBucketRawTotal(sales, inv) ==
    LET key == AddressName(inv)
        withKey == IF HasKey(sales, key) THEN sales
                   ELSE Append(sales, [key |-> key, count |-> 0, total |-> 0, orders |-> <<>>])
    IN  [i \in 1..Len(withKey) |->
            IF withKey[i].key = key
            THEN [key |-> key,
                  count |-> withKey[i].count + 1,
                  total |-> withKey[i].total + inv.amount_total,
                  orders |-> Append(withKey[i].orders, OrderOf(inv))]
            ELSE withKey[i]]

\* One round of invoices.forEach: the bucket of the record's address is created
\* when it is new (in insertion order) and the record is added to it.
AddToBucket(sales, inv) ==
    LET key == AddressName(inv)
        withKey == IF HasKey(sales, key) THEN sales
                   ELSE Append(sales, [key |-> key, count |-> 0, total |-> 0, orders |-> <<>>])
    IN  [i \in 1..Len(withKey) |->
            IF withKey[i].key = key
            THEN [key |-> key,
                  count |-> withKey[i].count + 1,
                  total |-> withKey[i].total + SignedAmount(inv),
                  orders |-> Append(withKey[i].orders, OrderOf(inv))]
            ELSE withKey[i]]

RECURSIVE SalesByAddress(_, _)
SalesByAddress(invoices, sales) ==
    IF invoices = <<>> THEN sales
    ELSE SalesByAddress(Tail(invoices), AddToBucket(sales, Head(invoices)))

TotalRevenue(invoices) == SumSeq([i \in 1..Len(invoices) |-> SignedAmount(invoices[i])])

\* totalOrders > 0 ? totalRevenue / totalOrders : 0
AvgOrderValue(totalRevenue, totalOrders) ==
    IF totalOrders > 0 THEN Div(totalRevenue, totalOrders) ELSE Num(0)

RecentInvoice(inv) == [inv EXCEPT !.amount_total = SignedAmount(inv)]

\* The body of the successful stats response.
StatsBody(partner, invoices) ==
    [customer |-> partner.name,
     kpi |-> [revenue |-> TotalRevenue(invoices),
              orders |-> Len(invoices),
              items |-> 0,
              avgOrderValue |-> AvgOrderValue(TotalRevenue(invoices), Len(invoices))],
     salesByAddress |-> SalesByAddress(invoices, <<>>),
     recentInvoices |-> [i \in 1..Len(invoices) |-> RecentInvoice(invoices[i])]]

(***************************************************************************)
(* The invoice lines.                                                      *)
(***************************************************************************)
\* Variant: the unfiltered fetch is not filtered.
KeepRawLineAny(l) == TRUE

\* The client-side filter of the unfiltered fetch.
KeepRawLine(l) ==
    /\ l.product_id # <<>>
    /\ ~(l.display_type # "" /\ l.display_type \in SectionOrNote)
    /\ l.price_subtotal > 0

RECURSIVE FilterLines(_)
FilterLines(ls) ==
    IF ls = <<>> THEN <<>>
    ELSE (IF KeepRawLine(Head(ls)) THEN <<Head(ls)>> ELSE <<>>) \o FilterLines(Tail(ls))

\* The normalized item of one line.  The ERP gives every line a subtotal, so
\* the computed form unit * qty * (1 - disc) is never used.
NormalizeLine(line) ==
    [id |-> line.id,
     name |-> IF line.product_id # <<>> THEN line.product_id[2]
              ELSE IF line.name # "" THEN line.name ELSE "Item",
     quantity |-> line.quantity,
     price_unit |-> ToFixed2(line.price_unit),
     price_subtotal |-> ToFixed2(line.price_subtotal),
     raw_subtotal |-> line.price_subtotal,
     account_id |-> IF line.account_id # <<>> THEN line.account_id[1] ELSE "",
     display_type |-> line.display_type]

Items(lines) == [i \in 1..Len(lines) |-> NormalizeLine(lines[i])]

(***************************************************************************)
(* The control flow of GET between two awaits.  A step of the handler ends *)
(* in a response or in the next odooSearchRead call.                       *)
(***************************************************************************)
Respond(r) == [kind |-> "respond", resp |-> r, query |-> NoQuery]

Await(q) == [kind |-> "call", resp |-> NoResponse, query |-> q]

\* Variant: only an absent id is refused (invoiceId === null).
MissingIdNullOnly(r) == ~r.id.present

\* !invoiceId
MissingId(r) == ~r.id.present \/ r.id.value = <<>>

\* Variant: the customer reference is not checked.
MissingCustomerRefUnchecked(e) == FALSE

\* !customerRef
MissingCustomerRef(e) == ~e["ODOO_CUSTOMER_REF"]

\* The status of the response to a stats request without the customer reference.
MissingCustomerRefStatus == 500

\* !partners || partners.length === 0
NoPartners(partners) == partners = <<>>

\* Variant: the length of invoice_line_ids is not tested.
HasLineIdsAnyLength(moveRows) == moveRows # <<>>

\* moveRows[0].invoice_line_ids is a non-empty list
HasLineIds(moveRows) == moveRows # <<>> /\ moveRows[1].invoice_line_ids # {}

\* Variant: a request without a type is taken as a stats request.
IsStatsOrDefault(r) == r.type = Given("stats") \/ ~r.type.present

\* type === 'stats'
IsStats(r) == r.type = Given("stats")

\* type === 'invoice'
IsInvoice(r) == r.type = Given("invoice")

\* GET from its entry to its first await.
Start(r, e) ==
    IF IsStats(r) THEN
        IF MissingCustomerRef(e)
        THEN Respond(ErrorJson(<<"Missing ODOO_CUSTOMER_REF environment variable">>,
                               MissingCustomerRefStatus))
        ELSE Await(PartnerQuery)
    ELSE IF IsInvoice(r) THEN
        IF MissingId(r)
        THEN Respond(ErrorJson(<<"Missing invoice id">>, 400))
        ELSE Await(MoveRowsQuery(parseInt(r.id.value)))
    ELSE Respond(ErrorJson(<<"Invalid type parameter">>, 400))

\* GET after the odooSearchRead named tag resolved with result.
OnResult(tag, result, r, partner) ==
    CASE tag = "partners" ->
            IF NoPartners(result)
            THEN Respond(ErrorJson(<<"Customer with Ref ", "ODOO_CUSTOMER_REF", " not found">>, 404))
            ELSE Await(InvoicesQuery(result[1].id))
      [] tag = "invoices" -> Respond(StatsJson(StatsBody(partner, result)))
      [] tag = "moveRows" ->
            IF HasLineIds(result)
            THEN Await(LinesResQuery(result[1].invoice_line_ids))
            ELSE Await(SrvLinesQuery(parseInt(r.id.value)))
      [] tag = "linesRes" -> Respond(ItemsJson(Items(result)))
      [] tag = "srvLines" -> Respond(ItemsJson(Items(result)))
      [] tag = "rawLines" -> Respond(ItemsJson(Items(FilterLines(result))))

\* Variant: the invoice branch has no inner catch, so a rejection reaches the
\* catch that answers with status 500.
OnRejectPropagates(tag, m, r) ==
    CASE tag \in {"partners", "invoices"} ->
            Respond(ErrorJson(<<"Failed to fetch Odoo data: ", m>>, 500))
      [] tag = "srvLines" -> Await(RawLinesQuery(parseInt(r.id.value)))
      [] tag \in {"moveRows", "linesRes", "rawLines"} -> Respond(ErrorJson(<<m>>, 500))

\* Variant: the stats branch issues the invoice query again when it rejected.
OnRejectRetries(tag, m, r) ==
    CASE tag = "partners" -> Respond(ErrorJson(<<"Failed to fetch Odoo data: ", m>>, 500))
      [] tag = "invoices" -> Await(InvoicesQuery(Partner.id))
      [] tag = "srvLines" -> Await(RawLinesQuery(parseInt(r.id.value)))
      [] tag \in {"moveRows", "linesRes", "rawLines"} -> Respond(ItemsJson(<<>>))

\* Variant: the stats branch answers a rejection with a fixed message.
OnRejectGeneric(tag, m, r) ==
    CASE tag \in {"partners", "invoices"} ->
            Respond(ErrorJson(<<"Internal Server Error">>, 500))
      [] tag = "srvLines" -> Await(RawLinesQuery(parseInt(r.id.value)))
      [] tag \in {"moveRows", "linesRes", "rawLines"} -> Respond(ItemsJson(<<>>))

\* Variant: the rejection of the unfiltered query leaves GET uncaught, so that
\* no JSON response is built.
OnRejectUncaught(tag, m, r) ==
    CASE tag \in {"partners", "invoices"} ->
            Respond(ErrorJson(<<"Failed to fetch Odoo data: ", m>>, 500))
      [] tag = "srvLines" -> Await(RawLinesQuery(parseInt(r.id.value)))
      [] tag = "rawLines" -> Respond(NoResponse)
      [] tag \in {"moveRows", "linesRes"} -> Respond(ItemsJson(<<>>))

\* GET after the odooSearchRead named tag rejected with an error of message m:
\* the catch clause that encloses the call.
OnReject(tag, m, r) ==
    CASE tag \in {"partners", "invoices"} ->
            Respond(ErrorJson(<<"Failed to fetch Odoo data: ", m>>, 500))
      [] tag = "srvLines" -> Await(RawLinesQuery(parseInt(r.id.value)))
      [] tag \in {"moveRows", "linesRes", "rawLines"} -> Respond(ItemsJson(<<>>))

\* odooSearchRead begins with getOdooConfig, which throws before anything is
\* sent when a setting is missing.
RECURSIVE Settle(_, _, _)
Settle(out, e, r) ==
    IF out.kind = "call" /\ ~getOdooConfig(e)
    THEN Settle(OnReject(out.query.tag, MissingOdooEnv, r), e, r)
    ELSE out

(***************************************************************************)
(* The remote procedure calls.                                             *)
(***************************************************************************)
\* The session identifiers authenticate may answer with.
Uids == {2, 7}

\* A remote procedure call sent: op names the odooSearchRead it belongs to and
\* outcome is "pending" until its callback runs, then "result", "nouid"
\* (authenticate answered without a uid) or "fault".
\* error is the message of the error the callback received, if any.
AuthenticateCall(q) ==
    [proc |-> "authenticate", uid |-> 0, method |-> "", query |-> NoQuery, op |-> q.tag,
     outcome |-> "pending", error |-> ""]

\* Variant: execute_kw is sent with the method write.
ExecuteKwWrite(uid, q) ==
    [proc |-> "execute_kw", uid |-> uid, method |-> "write", query |-> q, op |-> q.tag,
     outcome |-> "pending", error |-> ""]

ExecuteKwCall(uid, q) ==
    [proc |-> "execute_kw", uid |-> uid, method |-> "search_read", query |-> q, op |-> q.tag,
     outcome |-> "pending", error |-> ""]

\* The log with the outcome of the call in flight (the last one) filled in.
Settled(log, outcome) == [log EXCEPT ![Len(log)].outcome = outcome]

\* The log with the error that the call in flight ended in.
SettledError(log, outcome, m) ==
    [log EXCEPT ![Len(log)].outcome = outcome, ![Len(log)].error = m]

\* The log with the uid that the authenticate in flight answered with.
SettledLogin(log, uid) == [log EXCEPT ![Len(log)].outcome = "result", ![Len(log)].uid = uid]

\* Variant: the uid of the first successful authenticate is kept and reused.
UidRetained(uid, log) ==
    LET answered == {i \in 1..Len(log) : log[i].proc = "authenticate" /\ log[i].outcome = "result"}
    IN  IF answered = {} THEN uid
        ELSE log[CHOOSE i \in answered : \A j \in answered : i <= j].uid

\* const uid = await odooLogin(): the uid that execute_kw is sent with, where
\* log holds the calls sent before this authenticate.
UidOfLogin(uid, log) == uid

\* The messages of the faults a remote call may end in.
FaultMessages == {"Access Denied", "connect ECONNREFUSED"}

NoUidMessage == "Authentication failed: No UID returned (check credentials)"

(***************************************************************************)
(* The Dashboard page's initial state.                                     *)
(***************************************************************************)
NoData == [set |-> FALSE, body |-> NoStats]

NoError == [set |-> FALSE, message |-> <<>>]

NoInvoice == 0

NoLines == [set |-> FALSE, lines |-> <<>>]

YearView == 12

StatsFetch == [type |-> "stats", id |-> 0]

InvoiceFetch(id) == [type |-> "invoice", id |-> id]

\* The days on which the page may be opened.
Todays == {Day(2026, 2, 10), Day(2026, 11, 5), Day(2027, 3, 31)}

\* today.getMonth() < 3 ? today.getFullYear() - 1 : today.getFullYear()
InitialYear(today) == IF today.m - 1 < 3 THEN today.y - 1 ELSE today.y

\* The locales of the browser: the short name of September differs.
Locales == {"en-US", "en-GB"}

\* The page after construction (mounted, its stats fetch in flight), in a
\* browser of one of the time zones tzs and of one of the locales, opened on
\* one of the days todays.
PageInit(tzs, locales, todays) ==
    /\ browser \in [tzWest : tzs, locale : locales]
    /\ data = NoData
    /\ loading = TRUE
    /\ error = NoError
    /\ viewBy = YearView
    /\ selectedYear \in {InitialYear(t) : t \in todays}
    /\ invoiceId = NoInvoice
    /\ invoiceLines = NoLines
    /\ loadingInvoice = FALSE
    /\ fetches = SetToBag({StatsFetch})
    /\ settled = [how |-> "", id |-> NoInvoice]

(***************************************************************************)
(* The endpoint: one request at a time, from its arrival to its response.  *)
(***************************************************************************)
ServerInit ==
    /\ env \in Envs
    /\ erp \in {e \in ErpStates : ErpConsistent(e)}
    /\ req = NoRequest
    /\ pc = "idle"
    /\ query = NoQuery
    /\ mainPartner = NoPartner
    /\ calls = <<>>
    /\ resp = NoResponse
    /\ ops = <<>>

\* The handler returns the response, or sends the authenticate of its next
\* odooSearchRead.
Proceed(out, log) ==
    IF out.kind = "respond"
    THEN /\ pc' = "done"
         /\ resp' = out.resp
         /\ query' = NoQuery
         /\ calls' = log
    ELSE /\ pc' = "auth"
         /\ resp' = resp
         /\ query' = out.query
         /\ calls' = Append(log, AuthenticateCall(out.query))

\* A request arrives and GET runs to its first await or to its response.
GET(r) ==
    /\ pc = "idle"
    /\ req' = r
    /\ Proceed(Settle(Start(r, env), env, r), calls)
    /\ UNCHANGED <<env, erp, mainPartner, pageVars, clientVars>>

\* odooLogin's callback: authenticate answered with a uid, and odooSearchRead
\* sends execute_kw with it.
LoginResolved(uid) ==
    /\ pc = "auth"
    /\ pc' = "exec"
    /\ calls' = Append(SettledLogin(calls, uid),
                       ExecuteKwCall(UidOfLogin(uid, SubSeq(calls, 1, Len(calls) - 1)), query))
    /\ UNCHANGED <<env, erp, req, query, mainPartner, resp, pageVars, clientVars>>

\* odooLogin's callback: authenticate faulted, or answered without a uid.
LoginRejected(m) ==
    /\ pc = "auth"
    /\ Proceed(Settle(OnReject(query.tag, m, req), env, req),
               SettledError(calls, IF m = NoUidMessage THEN "nouid" ELSE "fault", m))
    /\ UNCHANGED <<env, erp, req, mainPartner, pageVars, clientVars>>

\* execute_kw's callback with the ERP's result.
SearchReadResolved ==
    /\ pc = "exec"
    /\ LET result == SearchRead(erp, query)
       IN  /\ mainPartner' = IF query.tag = "partners" /\ ~NoPartners(result)
                             THEN result[1] ELSE mainPartner
           /\ Proceed(Settle(OnResult(query.tag, result, req, mainPartner), env, req),
                      Settled(calls, "result"))
    /\ UNCHANGED <<env, erp, req, pageVars, clientVars>>

\* execute_kw's callback with a fault.
SearchReadRejected(m) ==
    /\ pc = "exec"
    /\ Proceed(Settle(OnReject(query.tag, m, req), env, req),
               SettledError(calls, "fault", m))
    /\ UNCHANGED <<env, erp, req, mainPartner, pageVars, clientVars>>

\* The response is delivered; the next request starts from a fresh invocation.
Delivered ==
    /\ pc = "done"
    /\ pc' = "idle"
    /\ req' = NoRequest
    /\ resp' = NoResponse
    /\ calls' = <<>>
    /\ query' = NoQuery
    /\ mainPartner' = NoPartner
    /\ UNCHANGED <<env, erp, pageVars, clientVars>>

\* The endpoint serving any client; the page is not driven.
Init == ServerInit /\ PageInit({FALSE}, {"en-GB"}, {Day(2026, 11, 5)})

Next ==
    \/ \E r \in Requests : GET(r)
    \/ \E uid \in Uids : LoginResolved(uid)
    \/ \E m \in FaultMessages \cup {NoUidMessage} : LoginRejected(m)
    \/ SearchReadResolved
    \/ \E m \in FaultMessages : SearchReadRejected(m)
    \/ Delivered

Spec == Init /\ [][Next]_vars

(***************************************************************************)
(* The endpoint as a relation: the responses GET can give to request r     *)
(* with settings e and ERP records db, over all outcomes of the remote     *)
(* calls.                                                                  *)
(***************************************************************************)
RECURSIVE Responses(_, _, _, _, _)
Responses(out, r, e, db, partner) ==
    LET o == Settle(out, e, r)
    IN  IF o.kind = "respond" THEN {o.resp}
        ELSE LET tag == o.query.tag
                 result == SearchRead(db, o.query)
                 p == IF tag = "partners" /\ ~NoPartners(result) THEN result[1] ELSE partner
             IN  Responses(OnResult(tag, result, r, p), r, e, db, p)
                 \cup UNION {Responses(OnReject(tag, m, r), r, e, db, partner) :
                                m \in FaultMessages \cup {NoUidMessage}}

EndpointResponses(r) ==
    UNION {Responses(Start(r, e), r, e, db, NoPartner) :
             e \in Envs, db \in {x \in ErpStates : ErpConsistent(x)}}

MoveIds == {m.id : m \in MovePool}

\* `${id}` of an id of one digit
IdString(id) == <<CHOOSE c \in Digits : DigitValue(c) = id>>

\* fetch(`/api/odoo?type=invoice&id=${id}`)
InvoiceResponses ==
    [id \in MoveIds |-> EndpointResponses([type |-> Given("invoice"), id |-> Given(IdString(id))])]

\* fetch('/api/odoo?type=stats')
StatsResponses == EndpointResponses([type |-> Given("stats"), id |-> Absent(<<>>)])

(***************************************************************************)
(* Dates in the page.  new Date('YYYY-MM-DD') is midnight UTC of that day; *)
(* getFullYear, getMonth and getDate read it in the browser's time zone,   *)
(* which west of Greenwich is still the evening of the day before.         *)
(***************************************************************************)
IsLeap(y) == (y % 4 = 0 /\ y % 100 # 0) \/ y % 400 = 0

DaysInMonth(y, m) ==
    IF m = 2 THEN (IF IsLeap(y) THEN 29 ELSE 28)
    ELSE IF m \in {4, 6, 9, 11} THEN 30 ELSE 31

PrevDay(date) ==
    IF date.d > 1 THEN Day(date.y, date.m, date.d - 1)
    ELSE IF date.m > 1 THEN Day(date.y, date.m - 1, DaysInMonth(date.y, date.m - 1))
    ELSE Day(date.y - 1, 12, 31)

\* new Date(iso) as the local calendar day
NewDate(iso, b) == IF b.tzWest THEN PrevDay(iso) ELSE iso

getFullYear(d) == d.y

\* 0-indexed (0 = January)
getMonth(d) == d.m - 1

\* orderMonth >= 3 ? orderYear : orderYear - 1
FinancialYear(d) == IF getMonth(d) >= 3 THEN getFullYear(d) ELSE getFullYear(d) - 1

\* (orderMonth + 9) % 12: 0 = April ... 11 = March
MonthIndexInYear(d) == (getMonth(d) + 9) % 12

(***************************************************************************)
(* The page's derived values (useMemo).                                    *)
(***************************************************************************)
\* Object.values(data.salesByAddress).flatMap(g => g.orders)
AllOrders(body) ==
    Concat([i \in 1..Len(body.salesByAddress) |-> body.salesByAddress[i].orders])

\* The filter of filteredStats.
OrderSelected(order, b, year, view) ==
    LET d == NewDate(order.date, b)
    IN  /\ FinancialYear(d) = year
        /\ (view = YearView \/ MonthIndexInYear(d) = view)

\* Variant: the average is computed without the guard on the count.
FilteredAvgUnguarded(revenue, count) == Div(revenue, count)

\* count > 0 ? revenue / count : 0
FilteredAvg(revenue, count) == IF count > 0 THEN Div(revenue, count) ELSE Num(0)

FilteredStats(d, b, year, view) ==
    IF ~d.set THEN [revenue |-> 0, orders |-> 0, avg |-> Num(0)]
    ELSE LET filteredOrders ==
                 SelectSeq(AllOrders(d.body), LAMBDA o : OrderSelected(o, b, year, view))
             revenue == SumSeq([i \in 1..Len(filteredOrders) |-> filteredOrders[i].amount])
             count == Len(filteredOrders)
         IN  [revenue |-> revenue, orders |-> count, avg |-> FilteredAvg(revenue, count)]

filteredStats == FilteredStats(data, browser, selectedYear, viewBy)

AvailableYears(d, b) ==
    IF ~d.set THEN {2025, 2026}
    ELSE {FinancialYear(NewDate(o.date, b)) :
            o \in {AllOrders(d.body)[i] : i \in 1..Len(AllOrders(d.body))}} \cup {2025, 2026}

availableYears == AvailableYears(data, browser)

(***************************************************************************)
(* The chart series (chartData), in the view whose financial year starts   *)
(* in April and in the view whose year starts in January.                  *)
(***************************************************************************)
\* MONTHS.map(m => m.substring(0, 3)), April first
ShortMonths ==
    <<"Apr", "May", "Jun", "Jul", "Aug", "Sep", "Oct", "Nov", "Dec", "Jan", "Feb", "Mar">>

\* MONTHS.map(m => m.substring(0, 3)), January first
ShortMonthsJanuary ==
    <<"Jan", "Feb", "Mar", "Apr", "May", "Jun", "Jul", "Aug", "Sep", "Oct", "Nov", "Dec">>

\* d.toLocaleString('default', { month: 'short' })
ToLocaleShortMonth(d, b) ==
    IF b.locale = "en-GB" /\ getMonth(d) = 8 THEN "Sept"
    ELSE ShortMonthsJanuary[getMonth(d) + 1]

\* The sum of (order.amount || 0) over the orders.
Amounts(orders) == SumSeq([i \in 1..Len(orders) |-> orders[i].amount])

\* Variant: a day gets a bucket only when an order falls on it.
GroupedDaysUnfilled(orders, b, actualYear, actualMonth) ==
    LET OnDay(o, i) == NewDate(o.date, b) = Day(actualYear, actualMonth + 1, i)
        active == {i \in 1..DaysInMonth(actualYear, actualMonth + 1) :
                     SelectSeq(orders, LAMBDA o : OnDay(o, i)) # <<>>}
    IN  [i \in active |-> Amounts(SelectSeq(orders, LAMBDA o : OnDay(o, i)))]

\* grouped in the month view: a bucket of 0 for each day 1..daysInMonth, then
\* each order of that month added to the bucket of its day.
GroupedDays(orders, b, actualYear, actualMonth) ==
    [i \in 1..DaysInMonth(actualYear, actualMonth + 1) |->
        Amounts(SelectSeq(orders,
                LAMBDA o : NewDate(o.date, b) = Day(actualYear, actualMonth + 1, i)))]

\* Object.entries of an object with integer keys: in ascending key order.
RECURSIVE ObjectEntries(_)
ObjectEntries(grouped) ==
    IF DOMAIN grouped = {} THEN <<>>
    ELSE LET k == CHOOSE x \in DOMAIN grouped : \A y \in DOMAIN grouped : x <= y
         IN  <<[name |-> k, value |-> grouped[k]]>>
             \o ObjectEntries([x \in DOMAIN grouped \ {k} |-> grouped[x]])

\* shortMonths.map(m => ({ name: m, value: grouped[m] })): the bucket of a
\* month holds the orders of the year whose locale month name is its key.
MonthSeries(ordersOfYear, b, names) ==
    [k \in 1..Len(names) |->
        [name |-> names[k],
         value |-> Amounts(SelectSeq(ordersOfYear,
                      LAMBDA o : ToLocaleShortMonth(NewDate(o.date, b), b) = names[k]))]]

\* chartData of the April view
ChartData(d, b, year, view) ==
    IF ~d.set THEN <<>>
    ELSE IF view # YearView
    THEN LET actualMonth == (view + 3) % 12
             actualYear == IF view >= 9 THEN year + 1 ELSE year
         IN  ObjectEntries(GroupedDays(AllOrders(d.body), b, actualYear, actualMonth))
    ELSE MonthSeries(SelectSeq(AllOrders(d.body),
                               LAMBDA o : FinancialYear(NewDate(o.date, b)) = year),
                     b, ShortMonths)

\* chartData of the January view
ChartDataJanuary(d, b, year, view) ==
    IF ~d.set THEN <<>>
    ELSE IF view # YearView
    THEN ObjectEntries(GroupedDays(AllOrders(d.body), b, year, view))
    ELSE MonthSeries(SelectSeq(AllOrders(d.body),
                               LAMBDA o : getFullYear(NewDate(o.date, b)) = year),
                     b, ShortMonthsJanuary)

chartData == ChartData(data, browser, selectedYear, viewBy)

(***************************************************************************)
(* The location data (deliveryBarData) and the labels of its addresses.    *)
(* A string is atomic in the model; the operations on the characters of a  *)
(* name work on the list of its characters.                                *)
(***************************************************************************)
\* The characters of the strings that occur as names.
Chars(s) ==
    CASE s = "ACME Ltd" ->
            <<"A", "C", "M", "E", " ", "L", "t", "d">>
      [] s = "ACME Ltd, Leeds Depot" ->
            <<"A", "C", "M", "E", " ", "L", "t", "d", ",", " ", "L", "e", "e", "d", "s",
                     " ", "D", "e", "p", "o", "t">>
      [] s = "ACME Ltd, Y" ->
            <<"A", "C", "M", "E", " ", "L", "t", "d", ",", " ", "Y">>
      [] s = "ACME Ltd, Northern Regional Distribution Centre, Hull" ->
            <<"A", "C", "M", "E", " ", "L", "t", "d", ",", " ", "N", "o", "r", "t", "h",
                     "e", "r", "n", " ", "R", "e", "g", "i", "o", "n", "a",
                     "l", " ", "D", "i", "s", "t", "r", "i", "b", "u", "t",
                     "i", "o", "n", " ", "C", "e", "n", "t", "r", "e", ",",
                     " ", "H", "u", "l", "l">>
      [] s = "Unknown" ->
            <<"U", "n", "k", "n", "o", "w", "n">>
      [] OTHER -> <<>>

MainOffice == <<"M", "a", "i", "n", " ", "O", "f", "f", "i", "c", "e">>

\* s.startsWith(p)
StartsWith(s, p) == Len(p) <= Len(s) /\ SubSeq(s, 1, Len(p)) = p

\* s.replace(p, ''): the first occurrence of p is removed
RemoveFirst(s, p) ==
    LET at == {i \in 1..(Len(s) - Len(p) + 1) : SubSeq(s, i, i + Len(p) - 1) = p}
    IN  IF at = {} THEN s
        ELSE LET i == CHOOSE x \in at : \A y \in at : x <= y
             IN  SubSeq(s, 1, i - 1) \o SubSeq(s, i + Len(p), Len(s))

RECURSIVE TrimStart(_)
TrimStart(s) == IF s # <<>> /\ Head(s) = " " THEN TrimStart(Tail(s)) ELSE s

RECURSIVE TrimEnd(_)
TrimEnd(s) == IF s # <<>> /\ s[Len(s)] = " " THEN TrimEnd(SubSeq(s, 1, Len(s) - 1)) ELSE s

\* s.replace(/^,\s*/, '')
StripComma(s) == IF s # <<>> /\ Head(s) = "," THEN TrimStart(Tail(s)) ELSE s

\* s.trim()
Trim(s) == TrimEnd(TrimStart(s))

\* addr.split(',')[0]
RECURSIVE FirstPart(_)
FirstPart(s) == IF s = <<>> \/ Head(s) = "," THEN <<>> ELSE <<Head(s)>> \o FirstPart(Tail(s))

transformAddressName(addr) ==
    IF Len(FirstPart(addr)) > 35
    THEN SubSeq(FirstPart(addr), 1, 33) \o <<".", ".", ".">>
    ELSE FirstPart(addr)

\* cleanName before the test of its length
CleanName(name, customerName) ==
    IF customerName # <<>> /\ StartsWith(name, customerName)
    THEN Trim(StripComma(RemoveFirst(name, customerName)))
    ELSE name

\* Variant: only an empty name is relabelled.
TooShortEmpty(cleanName) == Len(cleanName) < 1

\* cleanName.length < 2
TooShort(cleanName) == Len(cleanName) < 2

\* The name of the entry of the address called name.
Label(name, customerName) ==
    LET cleanName == CleanName(name, customerName)
    IN  transformAddressName(IF TooShort(cleanName) THEN MainOffice ELSE cleanName)

\* One step of the sort by descending value, which is stable.
RECURSIVE InsertByValue(_, _)
InsertByValue(e, sorted) ==
    IF sorted = <<>> THEN <<e>>
    ELSE IF Head(sorted).value >= e.value THEN <<Head(sorted)>> \o InsertByValue(e, Tail(sorted))
    ELSE <<e>> \o sorted

RECURSIVE SortByValue(_)
SortByValue(entries) ==
    IF entries = <<>> THEN <<>>
    ELSE InsertByValue(entries[Len(entries)], SortByValue(SubSeq(entries, 1, Len(entries) - 1)))

DeliveryBarData(d, b, year, view) ==
    IF ~d.set THEN <<>>
    ELSE LET sales == d.body.salesByAddress
             ValidOrders(i) ==
                 SelectSeq(sales[i].orders, LAMBDA o : OrderSelected(o, b, year, view))
             Total(i) == SumSeq([k \in 1..Len(ValidOrders(i)) |-> ValidOrders(i)[k].amount])
             Entry(i) ==
                 [name |-> Label(Chars(sales[i].key), Chars(d.body.customer)),
                  fullName |-> sales[i].key,
                  value |-> Total(i),
                  orders |-> ValidOrders(i)]
         IN  SortByValue(Concat([i \in 1..Len(sales) |->
                                    IF Total(i) > 0 THEN <<Entry(i)>> ELSE <<>>]))

deliveryBarData == DeliveryBarData(data, browser, selectedYear, viewBy)

(***************************************************************************)
(* The page's actions.                                                     *)
(***************************************************************************)
\* fetchData: the endpoint answered with status 200.
FetchDataOk(r) ==
    /\ BagIn(StatsFetch, fetches)
    /\ r.status = 200
    /\ data' = [set |-> TRUE, body |-> r.stats]
    /\ loading' = FALSE
    /\ fetches' = fetches (-) SetToBag({StatsFetch})
    /\ UNCHANGED <<error, browser, viewBy, selectedYear, invoiceId, invoiceLines,
                   loadingInvoice, settled, serverVars, clientVars>>

\* fetchData: the endpoint answered with an error status; json.error is thrown.
FetchDataNotOk(r) ==
    /\ BagIn(StatsFetch, fetches)
    /\ r.status # 200
    /\ error' = [set |-> TRUE,
                 message |-> IF r.error # <<>> THEN r.error ELSE <<"Failed to fetch data">>]
    /\ loading' = FALSE
    /\ fetches' = fetches (-) SetToBag({StatsFetch})
    /\ UNCHANGED <<data, browser, viewBy, selectedYear, invoiceId, invoiceLines,
                   loadingInvoice, settled, serverVars, clientVars>>

\* The messages of the errors fetch and res.json() throw.
FetchErrors == {"Failed to fetch", "Unexpected end of JSON input"}

\* fetchData: fetch threw (the network failed) or the body could not be parsed.
FetchDataThrew(m) ==
    /\ BagIn(StatsFetch, fetches)
    /\ error' = [set |-> TRUE, message |-> <<m>>]
    /\ loading' = FALSE
    /\ fetches' = fetches (-) SetToBag({StatsFetch})
    /\ UNCHANGED <<data, browser, viewBy, selectedYear, invoiceId, invoiceLines,
                   loadingInvoice, settled, serverVars, clientVars>>

\* The selectors are rendered once loading is over and there is no error.
Rendered == ~loading /\ ~error.set

\* Variant: the effect that fetches the statistics depends on the selection.
EffectDepsSelection == {"selectedYear", "viewBy"}

\* The dependency list of the effect that fetches the statistics: []
EffectDeps == {}

\* After a render in which the state variables changed were set, the effect
\* runs again (and fetchData fetches) when one of them is a dependency.
AfterRender(changed) ==
    IF changed \cap EffectDeps # {}
    THEN fetches' = fetches (+) SetToBag({StatsFetch})
    ELSE UNCHANGED fetches

\* Variant: the year selector leaves the period as it is.
PeriodKeptOnYearChange(view) == view

\* setViewBy('year') of the year selector's onChange
PeriodAfterYearChange(view) == YearView

\* The year selector's onChange.
SelectYear(y) ==
    /\ Rendered
    /\ y \in availableYears
    /\ selectedYear' = y
    /\ viewBy' = PeriodAfterYearChange(viewBy)
    /\ AfterRender({"selectedYear", "viewBy"})
    /\ UNCHANGED <<browser, data, loading, error, invoiceId, invoiceLines, loadingInvoice,
                   settled, serverVars, clientVars>>

\* The period selector's onChange.
SelectPeriod(v) ==
    /\ Rendered
    /\ viewBy' = v
    /\ AfterRender({"viewBy"})
    /\ UNCHANGED <<browser, data, loading, error, selectedYear, invoiceId, invoiceLines,
                   loadingInvoice, settled, serverVars, clientVars>>

\* The filter of the invoice list.
InvoiceListed(inv, b, year, view) ==
    LET d == NewDate(inv.invoice_date, b)
    IN  /\ FinancialYear(d) = year
        /\ (view # YearView => MonthIndexInYear(d) = view)

\* The ids of the invoices in the list, each of them clickable.
ListedIds ==
    IF ~data.set THEN {}
    ELSE {data.body.recentInvoices[i].id :
            i \in {j \in 1..Len(data.body.recentInvoices) :
                     InvoiceListed(data.body.recentInvoices[j], browser, selectedYear, viewBy)}}

\* A click on an invoice of the list runs fetchInvoiceDetails up to its await;
\* the modal, once open, covers the list.
FetchInvoiceDetails(id) ==
    /\ Rendered
    /\ invoiceId = NoInvoice
    /\ id \in ListedIds
    /\ BagCardinality(fetches) < MaxFetches
    /\ invoiceId' = id
    /\ loadingInvoice' = TRUE
    /\ fetches' = fetches (+) SetToBag({InvoiceFetch(id)})
    /\ UNCHANGED <<browser, data, loading, error, viewBy, selectedYear, invoiceLines,
                   settled, serverVars, clientVars>>

\* fetchInvoiceDetails: the endpoint answered with status 200 and a list.
InvoiceDetailsOk(id, r) ==
    /\ BagIn(InvoiceFetch(id), fetches)
    /\ r.status = 200
    /\ invoiceLines' = [set |-> TRUE, lines |-> r.items]
    /\ loadingInvoice' = FALSE
    /\ settled' = [how |-> "ok", id |-> id]
    /\ fetches' = fetches (-) SetToBag({InvoiceFetch(id)})
    /\ UNCHANGED <<browser, data, loading, error, viewBy, selectedYear, invoiceId,
                   serverVars, clientVars>>

\* What makes fetchInvoiceDetails throw: a response that is not ok, a failure
\* of the network (fetch rejects) or a body that is not JSON (res.json rejects).
FailureCauses == {"status", "network", "json"}

\* Variant: the catch of fetchInvoiceDetails reports the error as fetchData does.
ErrorReported(err, cause) == [set |-> TRUE, message |-> <<cause>>]

\* The page's error after the catch of fetchInvoiceDetails, which only logs.
ErrorAfterCatch(err, cause) == err

\* fetchInvoiceDetails: the endpoint answered with an error status, the body
\* could not be parsed, or fetch itself threw.
InvoiceDetailsFailed(id, cause) ==
    /\ BagIn(InvoiceFetch(id), fetches)
    /\ invoiceLines' = [set |-> TRUE, lines |-> <<>>]
    /\ loadingInvoice' = FALSE
    /\ error' = ErrorAfterCatch(error, cause)
    /\ fetches' = fetches (-) SetToBag({InvoiceFetch(id)})
    /\ settled' = [how |-> cause, id |-> id]
    /\ UNCHANGED <<browser, data, loading, viewBy, selectedYear, invoiceId,
                   serverVars, clientVars>>

\* closeInvoiceModal
CloseInvoiceModal ==
    /\ Rendered
    /\ invoiceId # NoInvoice
    /\ invoiceId' = NoInvoice
    /\ invoiceLines' = NoLines
    /\ UNCHANGED <<browser, data, loading, error, viewBy, selectedYear, loadingInvoice,
                   fetches, settled, serverVars, clientVars>>

PageNext ==
    \/ \E r \in StatsResponses : FetchDataOk(r)
    \/ \E r \in StatsResponses : FetchDataNotOk(r)
    \/ \E m \in FetchErrors : FetchDataThrew(m)
    \/ \E y \in 2025..2027 : SelectYear(y)
    \/ \E v \in (0..11) \cup {YearView} : SelectPeriod(v)

ModalNext ==
    \/ \E id \in MoveIds : FetchInvoiceDetails(id)
    \/ \E id \in MoveIds : \E r \in InvoiceResponses[id] : InvoiceDetailsOk(id, r)
    \/ \E id \in MoveIds : \E cause \in FailureCauses : InvoiceDetailsFailed(id, cause)
    \/ CloseInvoiceModal

\* The page in a browser, the endpoint's answers drawn from those it can give.
InitPage ==
    /\ env = [s \in Settings |-> TRUE]
    /\ erp = [partnerKnown |-> TRUE, moves |-> {}, lines |-> {}]
    /\ req = NoRequest
    /\ pc = "idle"
    /\ query = NoQuery
    /\ mainPartner = NoPartner
    /\ calls = <<>>
    /\ resp = NoResponse
    /\ ops = <<>>
    /\ PageInit(BOOLEAN, Locales, Todays)

\* The page's statistics: the fetch on mount and the two selectors.
SpecPage == InitPage /\ [][PageNext]_vars

\* The periods selected while the modal is exercised: April and the whole year.
ModalPeriods == {0, YearView}

ModalPageNext ==
    \/ \E r \in StatsResponses : FetchDataOk(r)
    \/ \E r \in StatsResponses : FetchDataNotOk(r)
    \/ \E m \in FetchErrors : FetchDataThrew(m)
    \/ \E y \in 2025..2027 : SelectYear(y)
    \/ \E v \in ModalPeriods : SelectPeriod(v)

InitModal ==
    /\ env = [s \in Settings |-> TRUE]
    /\ erp = [partnerKnown |-> TRUE, moves |-> {}, lines |-> {}]
    /\ req = NoRequest
    /\ pc = "idle"
    /\ query = NoQuery
    /\ mainPartner = NoPartner
    /\ calls = <<>>
    /\ resp = NoResponse
    /\ ops = <<>>
    /\ PageInit(BOOLEAN, {"en-GB"}, {Day(2026, 11, 5)})

\* The page with its invoice-detail modal.
SpecModal == InitModal /\ [][ModalPageNext \/ ModalNext]_vars

(***************************************************************************)
(* The remote API client on its own: a caller starts odooSearchRead and    *)
(* odooCall operations one after the other, each settling before the next  *)
(* is started.                                                             *)
(***************************************************************************)
Op(name, method, outcome, message) ==
    [name |-> name, method |-> method, outcome |-> outcome, error |-> message]

\* The last operation settled with this outcome.
OpSettled(outcome, message) ==
    [ops EXCEPT ![Len(ops)].outcome = outcome, ![Len(ops)].error = message]

\* The queries the caller passes to odooSearchRead.
ClientQueries == {PartnerQuery}

\* The methods the caller passes to odooCall.
ClientMethods == {"write"}

\* odooCall(model, method, args, kwargs) as a query without domain or limit.
CallQuery == [NoQuery EXCEPT !.tag = "call", !.model = "res.partner"]

\* An operation from its entry to its first await: getOdooConfig throws when a
\* setting is missing, else odooLogin sends authenticate.
StartOp(name, method, q) ==
    /\ pc = "idle"
    /\ Len(ops) < MaxOps
    /\ IF getOdooConfig(env)
       THEN /\ pc' = "auth"
            /\ query' = q
            /\ calls' = Append(calls, AuthenticateCall(q))
            /\ ops' = Append(ops, Op(name, method, "pending", ""))
       ELSE /\ ops' = Append(ops, Op(name, method, "rejected", MissingOdooEnv))
            /\ UNCHANGED <<pc, query, calls>>
    /\ UNCHANGED <<env, erp, req, mainPartner, resp, pageVars>>

odooSearchRead(q) == StartOp("odooSearchRead", "search_read", q)

odooCall(method) == StartOp("odooCall", method, CallQuery)

\* odooLogin's callback with a uid: the operation sends its execute_kw.
odooLoginResolved(uid) ==
    /\ pc = "auth"
    /\ pc' = "exec"
    /\ calls' = Append(SettledLogin(calls, uid),
                       [ExecuteKwCall(UidOfLogin(uid, SubSeq(calls, 1, Len(calls) - 1)), query)
                            EXCEPT !.method = ops[Len(ops)].method])
    /\ UNCHANGED <<env, erp, req, query, mainPartner, resp, ops, pageVars>>

\* odooLogin's callback with an error or without a uid: the operation rejects.
odooLoginRejected(m) ==
    /\ pc = "auth"
    /\ pc' = "idle"
    /\ query' = NoQuery
    /\ calls' = SettledError(calls, IF m = NoUidMessage THEN "nouid" ELSE "fault", m)
    /\ ops' = OpSettled("rejected", m)
    /\ UNCHANGED <<env, erp, req, mainPartner, resp, pageVars>>

\* execute_kw's callback with a result: the operation resolves.
ExecuteKwResolved ==
    /\ pc = "exec"
    /\ pc' = "idle"
    /\ query' = NoQuery
    /\ calls' = Settled(calls, "result")
    /\ ops' = OpSettled("resolved", "")
    /\ UNCHANGED <<env, erp, req, mainPartner, resp, pageVars>>

\* execute_kw's callback with an error: the operation rejects.
ExecuteKwRejected(m) ==
    /\ pc = "exec"
    /\ pc' = "idle"
    /\ query' = NoQuery
    /\ calls' = SettledError(calls, "fault", m)
    /\ ops' = OpSettled("rejected", m)
    /\ UNCHANGED <<env, erp, req, mainPartner, resp, pageVars>>

ClientNext ==
    \/ \E q \in ClientQueries : odooSearchRead(q)
    \/ \E method \in ClientMethods : odooCall(method)
    \/ \E uid \in Uids : odooLoginResolved(uid)
    \/ \E m \in FaultMessages \cup {NoUidMessage} : odooLoginRejected(m)
    \/ ExecuteKwResolved
    \/ \E m \in FaultMessages : ExecuteKwRejected(m)

InitClient ==
    /\ env \in Envs
    /\ erp = [partnerKnown |-> TRUE, moves |-> {}, lines |-> {}]
    /\ req = NoRequest
    /\ pc = "idle"
    /\ query = NoQuery
    /\ mainPartner = NoPartner
    /\ calls = <<>>
    /\ resp = NoResponse
    /\ ops = <<>>
    /\ PageInit({FALSE}, {"en-GB"}, {Day(2026, 11, 5)})

SpecClient == InitClient /\ [][ClientNext]_vars

(***************************************************************************)
(* Properties of the endpoint (under Spec), of the page (under SpecPage    *)
(* and SpecModal) and of the API client (under SpecClient).                *)
(***************************************************************************)
Done == pc = "done"

\* The step-by-step endpoint answers as the relation Responses says.
ResponseIsEndpointResponse ==
    Done => resp \in Responses(Start(req, env), req, env, erp, NoPartner)

StatsDone == Done /\ resp.kind = "stats"

\* The records the invoice query of the stats operation fetches.
Fetched == Matching(erp, InvoicesQuery(Partner.id))

CreditNotes == {m \in Fetched : m.move_type = "out_refund"}

RECURSIVE SumAbs(_)
SumAbs(S) ==
    IF S = {} THEN 0
    ELSE LET x == CHOOSE m \in S : TRUE IN Abs(x.amount_total) + SumAbs(S \ {x})

\* Invoices of 100.00 and 50.00 and a credit note of 30.00.
ExampleMoves == {m \in MovePool : m.id \in {1, 2, 3}}

Kpi == resp.stats.kpi

\* C1 as claimed: kpi.revenue is the sum of the absolute values of amount_total
\* of the fetched records; the example gives revenue 180.00, count 3, average 60.00.
C1_RevenueSumsAbsoluteValues ==
    StatsDone =>
        /\ Kpi.revenue = SumAbs(Fetched)
        /\ erp.moves = ExampleMoves =>
              (Kpi.revenue = 18000 /\ Kpi.orders = 3 /\ Kpi.avgOrderValue = Num(6000))

\* C1 as amended: kpi.revenue is the sum of the absolute values of amount_total of
\* the fetched ordinary invoices minus the sum of the absolute values of the
\* fetched credit notes; the example gives revenue 120.00, count 3, average 40.00.
C1_RevenueSubtractsCreditNotes ==
    StatsDone =>
        /\ Kpi.revenue = SumAbs(Fetched \ CreditNotes) - SumAbs(CreditNotes)
        /\ erp.moves = ExampleMoves =>
              (Kpi.revenue = 12000 /\ Kpi.orders = 3 /\ Kpi.avgOrderValue = Num(4000))

C1_ExampleAnswered == StatsDone /\ erp.moves = ExampleMoves

\* The ERP's record of the fetched record with this id.
ErpMove(id) == CHOOSE m \in erp.moves : m.id = id

BucketOrders == AllOrders(resp.stats)

\* C2: in every stats response, whatever the sign of the ERP's amount_total, the
\* amount of a credit note is -|amount_total| (never positive) and the amount of
\* an ordinary invoice is +|amount_total| (never negative), in the invoice list
\* and in the address buckets alike.
C2_OppositeSignConventions ==
    StatsDone =>
        /\ \A i \in 1..Len(resp.stats.recentInvoices) :
              LET inv == resp.stats.recentInvoices[i]
                  raw == ErpMove(inv.id).amount_total
              IN  IF inv.move_type = "out_refund"
                  THEN inv.amount_total = -Abs(raw) /\ inv.amount_total <= 0
                  ELSE inv.amount_total = Abs(raw) /\ inv.amount_total >= 0
        /\ \A i \in 1..Len(BucketOrders) :
              LET o == BucketOrders[i]
                  m == ErpMove(o.id)
              IN  IF m.move_type = "out_refund"
                  THEN o.amount = -Abs(m.amount_total) /\ o.amount <= 0
                  ELSE o.amount = Abs(m.amount_total) /\ o.amount >= 0

\* A response with a credit note the ERP holds as a positive amount and an
\* ordinary invoice it holds as a negative one.
C2_BothSignsFetched ==
    /\ StatsDone
    /\ \E m \in Fetched : m.move_type = "out_refund" /\ m.amount_total > 0
    /\ \E m \in Fetched : m.move_type = "out_invoice" /\ m.amount_total < 0

\* avg is total / count when count > 0 and exactly 0 when count = 0, and is
\* never the result of a division by zero.
AvgOk(avg, total, count) ==
    /\ avg.den # 0
    /\ count > 0 => avg.num * count = total * avg.den
    /\ count = 0 => avg = Num(0)

\* C3: the average invoice value is revenue / count when count > 0 and exactly 0
\* when count = 0, in the fetched statistics (kpi.avgOrderValue) and in the
\* filtered KPI of the selected year and period; no division by zero occurs.
C3_AverageIsTotalOverCount ==
    /\ data.set =>
          AvgOk(data.body.kpi.avgOrderValue, data.body.kpi.revenue, data.body.kpi.orders)
    /\ AvgOk(filteredStats.avg, filteredStats.revenue, filteredStats.orders)

\* Three invoices in the selected year whose average is not a whole number.
C3_FractionalAverage ==
    data.set /\ filteredStats.orders = 3 /\ filteredStats.avg.den = 3

\* The environment holds no customer reference.
CustomerRefUnset == ~env["ODOO_CUSTOMER_REF"]

\* The partner query was answered, with no record.
PartnersEmpty ==
    /\ ~erp.partnerKnown
    /\ \E i \in 1..Len(calls) :
          calls[i].proc = "execute_kw" /\ calls[i].op = "partners" /\ calls[i].outcome = "result"

NoInvoiceQuery == \A i \in 1..Len(calls) : calls[i].op # "invoices"

ErrorResponse == resp.kind = "error" /\ resp.error # <<>>

\* C4 as claimed: a stats request with the customer reference missing, or with a
\* reference that matches no partner, returns a 4xx error response with a
\* message and no invoice query is issued.
C4_MissingOrUnknownCustomerIs4xx ==
    (Done /\ req.type = Given("stats") /\ (CustomerRefUnset \/ PartnersEmpty)) =>
        /\ resp.status \in 400..499
        /\ ErrorResponse
        /\ NoInvoiceQuery

\* C4 as amended: a stats request with the customer reference missing returns a
\* 500 error response with a message and sends no remote call; one whose
\* reference matches no partner returns a 404 error response with a message;
\* in both cases no invoice query is issued.
C4_MissingCustomerIs500UnknownIs404 ==
    (Done /\ req.type = Given("stats")) =>
        /\ CustomerRefUnset =>
              (resp.status = 500 /\ ErrorResponse /\ calls = <<>>)
        /\ PartnersEmpty =>
              (resp.status = 404 /\ ErrorResponse /\ NoInvoiceQuery)

C4_MissingCustomerRefAnswered == Done /\ req.type = Given("stats") /\ CustomerRefUnset

\* C5: a stats or invoice request made while an ERP setting (URL, database,
\* username or credential) is missing ends in an error response with a message,
\* and no remote call is sent.
C5_MissingSettingIsError ==
    (Done /\ (IsStats(req) \/ IsInvoice(req)) /\ ~getOdooConfig(env)) =>
        /\ resp.status >= 400
        /\ ErrorResponse
        /\ calls = <<>>

\* C6: an invoice request without an id (absent or empty) returns a 400 error
\* response and sends no remote call.
C6_MissingIdIs400 ==
    (Done /\ IsInvoice(req) /\ (~req.id.present \/ req.id.value = <<>>)) =>
        /\ resp.status = 400
        /\ ErrorResponse
        /\ calls = <<>>

C6_EmptyIdAnswered == Done /\ IsInvoice(req) /\ req.id = Given(<<>>)

\* C7: a request whose type is missing or is neither stats nor invoice returns
\* a 400 error response and sends no remote call.
C7_InvalidTypeIs400 ==
    (Done /\ req.type \notin {Given("stats"), Given("invoice")}) =>
        /\ resp.status = 400
        /\ ErrorResponse
        /\ calls = <<>>

C7_MissingTypeAnswered == Done /\ ~req.type.present

InvoiceDone == Done /\ IsInvoice(req) /\ ~MissingId(req)

RequestedId == parseInt(req.id.value)

UnknownInvoice == InvoiceDone /\ \A m \in erp.moves : m.id # RequestedId

Answered(op) ==
    \E i \in 1..Len(calls) :
        calls[i].proc = "execute_kw" /\ calls[i].op = op /\ calls[i].outcome = "result"

\* C8 as claimed: an invoice request whose id matches no invoice of the ERP is
\* answered with status 404.
C8_UnknownInvoiceIs404 == (UnknownInvoice /\ Answered("moveRows")) => resp.status = 404

\* C8 as amended: an invoice request whose id matches no invoice of the ERP is
\* answered with status 200 and the empty list.
C8_UnknownInvoiceIsEmptyList == UnknownInvoice => resp = ItemsJson(<<>>)

\* The ERP holds lines of another invoice and answered both queries.
C8_UnknownInvoiceAnswered ==
    UnknownInvoice /\ erp.lines # {} /\ Answered("moveRows") /\ Answered("srvLines")

LinesOfRequested == {l \in erp.lines : l.move_id = RequestedId}

\* The requested invoice exists, lists no line, and none of its lines is an
\* ordinary line with a positive subtotal.
ZeroLineItems ==
    /\ InvoiceDone
    /\ \E m \in erp.moves : m.id = RequestedId
    /\ \A l \in LinesOfRequested :
          ~l.inInvoiceTab /\ (l.display_type \in SectionOrNote \/ l.price_subtotal <= 0)

\* C9: an invoice request for an existing invoice with zero line items returns
\* status 200 with the empty list, not an error.
C9_ZeroLineItemsIsEmptyList == ZeroLineItems => resp = ItemsJson(<<>>)

\* The unfiltered fetch returned journal lines of the invoice, all filtered out.
C9_RawLinesFilteredOut == ZeroLineItems /\ LinesOfRequested # {} /\ Answered("rawLines")

Faulted(i) == calls[i].outcome \in {"fault", "nouid"}

\* C10 as claimed: in the invoice operation a fault of any remote call results
\* in status 200 with the empty list.
C10_AnyFaultIsEmptyList ==
    (InvoiceDone /\ \E i \in 1..Len(calls) : Faulted(i)) => resp = ItemsJson(<<>>)

\* C10 as amended: the invoice operation always answers a request that has an id
\* with status 200 and a list; a fault of a remote call of the invoice read, of
\* the read of lines by id or of the unfiltered query gives the empty list; a
\* fault of a remote call of the server-side filtered query is followed by the
\* unfiltered query, and the list is then the client-side filtered result of
\* that query when it is answered.
C10_FaultIsEmptyListExceptFilteredQuery ==
    InvoiceDone =>
        /\ resp.status = 200 /\ resp.kind = "items"
        /\ (\E i \in 1..Len(calls) : Faulted(i) /\ calls[i].op # "srvLines") =>
              resp.items = <<>>
        /\ \A i \in 1..Len(calls) :
              (Faulted(i) /\ calls[i].op = "srvLines") =>
                  (i < Len(calls) /\ calls[i + 1].op = "rawLines")
        /\ Answered("rawLines") =>
              resp.items =
                  Items(SelectSeq(ById(LinesOfRequested),
                                  LAMBDA l : /\ l.product_id # <<>>
                                             /\ l.display_type \notin SectionOrNote
                                             /\ l.price_subtotal > 0))

\* The server-side filtered query faulted and the response still has items.
C10_ItemsAfterFault ==
    /\ InvoiceDone
    /\ \E i \in 1..Len(calls) : Faulted(i) /\ calls[i].op = "srvLines"
    /\ resp.items # <<>>

\* An invoice request that has an id.
InvoiceRequest == req.type = Given("invoice") /\ req.id.present /\ req.id.value # <<>>

\* C11: no item of an invoice response is a section or note line and none has a
\* subtotal less than or equal to 0, whichever tier produced the items.
C11_NoSectionNoNonPositiveItem ==
    (Done /\ InvoiceRequest /\ resp.kind = "items") =>
        \A i \in 1..Len(resp.items) :
            /\ resp.items[i].display_type \notin SectionOrNote
            /\ resp.items[i].raw_subtotal > 0

\* An odooSearchRead of this name was begun (its authenticate was sent).
Issued(op) == \E i \in 1..Len(calls) : calls[i].op = op

\* The ERP holds the requested invoice and its invoice_line_ids is not empty.
HasList ==
    /\ \E m \in erp.moves : m.id = RequestedId
    /\ \E l \in LinesOfRequested : l.inInvoiceTab

\* C12: the invoice operation resolves the lines by tiers in a fixed order: the
\* read by the line-id list is issued exactly when the invoice read answered
\* with a non-empty list, the server-side filtered query only when it answered
\* without one, the unfiltered query only right after a fault of the filtered
\* query, and no later tier is queried once an earlier tier has answered.
C12_TiersInFixedOrder ==
    InvoiceRequest =>
        /\ (Answered("moveRows") /\ HasList) => (Issued("linesRes") /\ ~Issued("srvLines"))
        /\ Issued("linesRes") => (Answered("moveRows") /\ HasList)
        /\ Issued("srvLines") => (Answered("moveRows") /\ ~HasList)
        /\ \A i \in 1..Len(calls) :
              (calls[i].op = "rawLines" /\ calls[i].proc = "authenticate") =>
                  (i > 1 /\ calls[i - 1].op = "srvLines" /\ Faulted(i - 1))
        /\ Answered("linesRes") => (~Issued("srvLines") /\ ~Issued("rawLines"))
        /\ Answered("srvLines") => ~Issued("rawLines")

\* The three kinds of run: the list was read; the filtered query answered; the
\* filtered query faulted and the unfiltered query answered.
C12_EveryTierAnswered ==
    /\ Done /\ InvoiceRequest
    /\ Answered("moveRows") /\ Answered("rawLines")
    /\ \E i \in 1..Len(calls) : calls[i].op = "srvLines" /\ Faulted(i)

IsAuthenticate(i) == calls[i].proc = "authenticate"

\* The operation that sent call i: the k-th operation sends the k-th authenticate.
OpOfCall(i) == ops[Cardinality({j \in 1..i : IsAuthenticate(j)})]

\* C13: every operation of the API client sends its own authenticate before
\* its execute_kw and sends execute_kw with the uid that authenticate answered
\* with; n operations send n authenticates; when authenticate faults or answers
\* without a uid the operation is rejected and its execute_kw is never sent.
C13_AuthenticatePerOperation ==
    /\ getOdooConfig(env) => Cardinality({i \in 1..Len(calls) : IsAuthenticate(i)}) = Len(ops)
    /\ \A i \in 1..Len(calls) :
          IF IsAuthenticate(i)
          THEN /\ calls[i].outcome = "result" =>
                     (i < Len(calls) /\ calls[i + 1].proc = "execute_kw")
               /\ Faulted(i) =>
                     /\ i = Len(calls) \/ IsAuthenticate(i + 1)
                     /\ OpOfCall(i).outcome = "rejected"
          ELSE /\ i > 1
               /\ IsAuthenticate(i - 1)
               /\ calls[i - 1].outcome = "result"
               /\ calls[i].uid = calls[i - 1].uid
               /\ calls[i].method = OpOfCall(i).method

\* Two operations sent execute_kw with different uids and a third was rejected
\* because authenticate answered without a uid.
C13_ThreeOperationsSettled ==
    /\ pc = "idle"
    /\ \E i, j \in 1..Len(calls) :
          /\ calls[i].proc = "execute_kw" /\ calls[j].proc = "execute_kw"
          /\ calls[i].uid # calls[j].uid
    /\ \E i \in 1..Len(calls) : calls[i].outcome = "nouid"
    /\ \E k \in 1..Len(ops) : ops[k].name = "odooCall"

\* C14: the only remote procedures the endpoint invokes are authenticate and
\* execute_kw with the method search_read.
C14_ReadOnlyRemoteCalls ==
    \A i \in 1..Len(calls) :
        \/ calls[i].proc = "authenticate"
        \/ calls[i].proc = "execute_kw" /\ calls[i].method = "search_read"

\* A stats request answered with statistics: both of its queries were sent.
C14_BothStatsQueriesSent == StatsDone /\ Len(calls) = 4

StatsRequest == req.type = Given("stats")

\* The queries begun while handling the request.
QueriesIssued == {i \in 1..Len(calls) : IsAuthenticate(i)}

\* C15: no remote call is retried: within one request no query is issued
\* twice, a stats request issues at most 2 queries and an invoice request at
\* most 3, and after a fault in a stats request no further remote call is made.
C15_NoRetry ==
    /\ \A i, j \in 1..Len(calls) :
          (i < j /\ calls[i].proc = calls[j].proc) =>
              (calls[i].op # calls[j].op /\ (~IsAuthenticate(i) => calls[i].query # calls[j].query))
    /\ StatsRequest => Cardinality(QueriesIssued) <= 2
    /\ InvoiceRequest => Cardinality(QueriesIssued) <= 3
    /\ StatsRequest => \A i \in 1..Len(calls) : Faulted(i) => (i = Len(calls) /\ Done)

\* An invoice request that issued three queries, the last of which faulted.
C15_ThreeQueriesLastFaulted ==
    Done /\ InvoiceRequest /\ Cardinality(QueriesIssued) = 3 /\ Faulted(Len(calls))

\* The message of the error that a stats request with a customer reference
\* ran into, "" when there was none.
StatsFault ==
    IF ~getOdooConfig(env) THEN MissingOdooEnv
    ELSE IF calls # <<>> /\ Faulted(Len(calls)) THEN calls[Len(calls)].error
    ELSE ""

\* C16: in the stats operation a missing ERP setting, an authentication failure
\* or a remote fault of the partner query or of the invoice query is answered
\* with status 500 and a message that contains the message of the fault; no
\* statistics are returned.
C16_StatsFaultIs500WithMessage ==
    (Done /\ StatsRequest /\ ~CustomerRefUnset /\ StatsFault # "") =>
        /\ resp.status = 500
        /\ resp.kind = "error"
        /\ \E k \in 1..Len(resp.error) : resp.error[k] = StatsFault
        /\ resp.stats = NoStats

\* The invoice query of a stats request faulted after the partner was found.
C16_InvoiceQueryFaulted ==
    /\ Done /\ StatsRequest
    /\ Answered("partners")
    /\ calls[Len(calls)].op = "invoices" /\ calls[Len(calls)].outcome = "fault"

\* The local days of the fetched orders.
OrderDays == {NewDate(AllOrders(data.body)[i].date, browser) : i \in 1..Len(AllOrders(data.body))}

\* A month view has one entry per day 1..n in ascending order, 0 on a day
\* without an order.
DaySeriesComplete(series, y, m) ==
    /\ Len(series) = DaysInMonth(y, m)
    /\ \A i \in 1..Len(series) :
          /\ series[i].name = i
          /\ Day(y, m, i) \notin OrderDays => series[i].value = 0

\* A year view has one entry per month in the order of names, 0 in a month
\* of the year without an order; first is the calendar month of the first entry.
MonthSeriesComplete(series, names, y, first) ==
    /\ Len(series) = 12
    /\ \A k \in 1..12 :
          /\ series[k].name = names[k]
          /\ (\A od \in OrderDays :
                 ~(od.m = ((first + k - 2) % 12) + 1
                   /\ od.y = (IF first + k - 1 > 12 THEN y + 1 ELSE y)))
             => series[k].value = 0

\* C17: once statistics are fetched, for every selected year and period the
\* chart series is complete: 12 entries in fiscal-year order in the year view,
\* one entry per day 1..N of the selected calendar month in a month view, and 0
\* in every bucket without activity; in the April view and in the January view.
C17_ChartSeriesComplete ==
    data.set =>
        IF viewBy = YearView
        THEN /\ MonthSeriesComplete(chartData, ShortMonths, selectedYear, 4)
             /\ MonthSeriesComplete(ChartDataJanuary(data, browser, selectedYear, viewBy),
                                    ShortMonthsJanuary, selectedYear, 1)
        ELSE /\ DaySeriesComplete(chartData,
                                  IF viewBy >= 9 THEN selectedYear + 1 ELSE selectedYear,
                                  ((viewBy + 3) % 12) + 1)
             /\ DaySeriesComplete(ChartDataJanuary(data, browser, selectedYear, viewBy),
                                  selectedYear, viewBy + 1)

\* The month view of a month of 30 days with an order on one of its days.
C17_MonthWithOneActiveDay ==
    /\ data.set /\ viewBy # YearView
    /\ Len(chartData) = 30
    /\ \E i \in 1..30 : chartData[i].value # 0
    /\ \E i \in 1..30 : chartData[i].value = 0

\* The invoice requests in flight for this id.
InvoiceFetches(bag, id) == CopiesIn(InvoiceFetch(id), bag)

\* A click on an invoice of the list: the modal opens on it.
ClickOn(id) == invoiceId = NoInvoice /\ invoiceId' = id /\ id \in ListedIds

\* C18: the statistics are requested once, on mount, and no step of the page
\* (a change of the selected year or period included) requests them again; an
\* invoice request is issued only by a click on an invoice of the list, and
\* each click issues exactly one, for the invoice clicked.
C18_OneStatsFetchOneInvoiceFetchPerClick ==
    /\ CopiesIn(StatsFetch, fetches) = 1
    /\ [][/\ CopiesIn(StatsFetch, fetches') <= CopiesIn(StatsFetch, fetches)
          /\ \A id \in MoveIds :
                /\ InvoiceFetches(fetches', id) > InvoiceFetches(fetches, id) => ClickOn(id)
                /\ ClickOn(id) =>
                      /\ InvoiceFetches(fetches', id) = InvoiceFetches(fetches, id) + 1
                      /\ \A other \in MoveIds \ {id} :
                            InvoiceFetches(fetches', other) = InvoiceFetches(fetches, other)]_vars

\* After the year and the period were changed, the request of a click is in
\* flight and the statistics request is not.
C18_ClickAfterSelection ==
    /\ selectedYear = 2027 /\ viewBy = 0
    /\ ~BagIn(StatsFetch, fetches)
    /\ invoiceId # NoInvoice /\ BagIn(InvoiceFetch(invoiceId), fetches)

\* A step in which an invoice request settles as failed.
InvoiceFetchFailed ==
    settled'.how \in FailureCauses /\ BagCardinality(fetches') < BagCardinality(fetches)

\* C19: a failed invoice-detail fetch (error status, network failure or
\* unparsable body) leaves the page-level error unset and the fetched
\* statistics in place (the page stays rendered), sets the item list to the
\* empty list and clears the invoice loading flag.
C19_FailedInvoiceFetchIsEmptyList ==
    [][InvoiceFetchFailed =>
          /\ error' = NoError
          /\ data' = data /\ data.set
          /\ ~loading'
          /\ invoiceLines' = [set |-> TRUE, lines |-> <<>>]
          /\ loadingInvoice' = FALSE]_vars

\* The modal is open on an invoice whose request failed with a network failure.
C19_ModalOpenAfterFailure ==
    /\ settled.how = "network"
    /\ fetches = EmptyBag
    /\ invoiceId # NoInvoice
    /\ invoiceLines = [set |-> TRUE, lines |-> <<>>]

\* What is left of an address name once the leading customer name, a following
\* comma and the white space around are removed.
Remainder(fullName) ==
    LET name == Chars(fullName)
        customer == Chars(data.body.customer)
    IN  IF StartsWith(name, customer)
        THEN Trim(StripComma(SubSeq(name, Len(customer) + 1, Len(name))))
        ELSE name

\* C20 as claimed: an address with fewer than 2 characters left after the
\* customer-name prefix is labelled "Main Office"; one with 2 or more keeps its
\* own first-segment name.
C20_ShortIsMainOfficeElseOwnName ==
    data.set =>
        \A i \in 1..Len(deliveryBarData) :
            LET rest == Remainder(deliveryBarData[i].fullName)
            IN  deliveryBarData[i].name =
                    IF Len(rest) < 2 THEN MainOffice ELSE FirstPart(rest)

\* C20 as amended: an address with fewer than 2 characters left after the
\* customer-name prefix is labelled "Main Office"; one with 2 or more is
\* labelled with its first segment, shortened to its first 33 characters and
\* "..." when the segment is longer than 35 characters.
C20_ShortIsMainOfficeElseOwnNameShortened ==
    data.set =>
        \A i \in 1..Len(deliveryBarData) :
            LET rest == Remainder(deliveryBarData[i].fullName)
                first == FirstPart(rest)
            IN  deliveryBarData[i].name =
                    IF Len(rest) < 2 THEN MainOffice
                    ELSE IF Len(first) > 35 THEN SubSeq(first, 1, 33) \o <<".", ".", ".">>
                    ELSE first

\* The location data holds an address relabelled "Main Office" and one whose
\* first segment is shortened.
C20_MainOfficeAndShortenedShown ==
    /\ data.set
    /\ \E i \in 1..Len(deliveryBarData) : deliveryBarData[i].name = MainOffice
    /\ \E i \in 1..Len(deliveryBarData) :
          deliveryBarData[i].name # FirstPart(Remainder(deliveryBarData[i].fullName))

\* C21: every label of the location data, the ellipsis of a shortened one
\* included, has at most 35 characters.
C21_LabelAtMost35Characters ==
    data.set =>
        \A i \in 1..Len(deliveryBarData) : Len(deliveryBarData[i].name) <= 35

\* The ids of the orders of the fetched data that a view selects.
KpiIds ==
    {o.id : o \in {AllOrders(data.body)[i] : i \in 1..Len(AllOrders(data.body))} \cap
                  {o \in {AllOrders(data.body)[i] : i \in 1..Len(AllOrders(data.body))} :
                      OrderSelected(o, browser, selectedYear, viewBy)}}

\* The ids of the orders that fall on a day of the month the chart shows.
ChartMonthIds ==
    LET actualMonth == (viewBy + 3) % 12
        actualYear == IF viewBy >= 9 THEN selectedYear + 1 ELSE selectedYear
        orders == AllOrders(data.body)
    IN  {orders[i].id : i \in {j \in 1..Len(orders) :
            /\ getFullYear(NewDate(orders[j].date, browser)) = actualYear
            /\ getMonth(NewDate(orders[j].date, browser)) = actualMonth}}

\* The ids of the orders of the entries of the location data, and of the
\* orders that location data without the test on the total would hold.
LocationIds ==
    LET sales == data.body.salesByAddress
    IN  UNION {{sales[i].orders[k].id : k \in {j \in 1..Len(sales[i].orders) :
                    OrderSelected(sales[i].orders[j], browser, selectedYear, viewBy)}} :
               i \in 1..Len(sales)}

\* The financial year and the period the claimed rule gives a date as written.
ClaimedYear(iso) == IF iso.m >= 4 THEN iso.y ELSE iso.y - 1
ClaimedPeriod(iso) == (iso.m - 1 + 9) % 12

\* C22 (the rule): the page puts an invoice dated in calendar month m of year y
\* in financial year y when m is April to December and y - 1 otherwise, and in
\* the period that is the inverse of (p + 3) mod 12.
C22_FinancialYearOfDate ==
    data.set =>
        \A i \in 1..Len(data.body.recentInvoices) :
            LET inv == data.body.recentInvoices[i]
            IN  /\ FinancialYear(NewDate(inv.invoice_date, browser)) = ClaimedYear(inv.invoice_date)
                /\ MonthIndexInYear(NewDate(inv.invoice_date, browser))
                       = ClaimedPeriod(inv.invoice_date)

\* C22 (the views): period p is calendar month (p + 3) mod 12 of year FY + 1
\* when p >= 9 and of FY otherwise, the inverse of (m + 9) mod 12, and the KPI
\* filter, the chart, the location data and the invoice list select the same
\* invoices.
C22_ViewsSelectSameInvoices ==
    /\ \A p \in 0..11 : (((p + 3) % 12) + 9) % 12 = p
    /\ \A m \in 0..11 : (((m + 9) % 12) + 3) % 12 = m
    /\ data.set =>
          /\ KpiIds = ListedIds
          /\ KpiIds = LocationIds
          /\ viewBy # YearView => ChartMonthIds = KpiIds
          /\ \A i \in 1..Len(data.body.recentInvoices) :
                LET d == NewDate(data.body.recentInvoices[i].invoice_date, browser)
                    p == MonthIndexInYear(d)
                IN  /\ getMonth(d) = (p + 3) % 12
                    /\ getFullYear(d) = IF p >= 9 THEN FinancialYear(d) + 1 ELSE FinancialYear(d)

\* C22: for an April fiscal start the page puts an invoice dated in calendar
\* month m of year y in financial year y when m is April to December and in
\* y - 1 otherwise, its period index is (m + 9) mod 12, and for every year and
\* period the KPI filter, the chart, the location data and the invoice list
\* select the same set of invoices.
C22_AprilFiscalYearConsistent ==
    C22_FinancialYearOfDate /\ C22_ViewsSelectSameInvoices

(***************************************************************************)
(* The endpoint under the assumption that every remote call eventually     *)
(* returns: the callback of a pending authenticate, and of a pending       *)
(* execute_kw, eventually runs with a result or with a fault.              *)
(***************************************************************************)
LoginReturns ==
    \/ \E uid \in Uids : LoginResolved(uid)
    \/ \E m \in FaultMessages \cup {NoUidMessage} : LoginRejected(m)

ExecuteKwReturns ==
    \/ SearchReadResolved
    \/ \E m \in FaultMessages : SearchReadRejected(m)

\* The settings and the ERP states that the progress of a request is followed
\* with: every setting set or one of two missing; no invoice or the first one,
\* with no line, one listed line or one unlisted line.
LiveEnvs ==
    {e \in Envs : \A s \in Settings : ~e[s] => s \in {"ODOO_URL", "ODOO_CUSTOMER_REF"}}

LiveErps ==
    {e \in ErpStates :
        /\ ErpConsistent(e)
        /\ \A m \in e.moves : m.id = 1
        /\ Cardinality(e.lines) <= 1
        /\ \A l \in e.lines : l.id \in {11, 13}}

InitLive == Init /\ env \in LiveEnvs /\ erp \in LiveErps

SpecLive ==
    InitLive /\ [][Next]_vars /\ WF_vars(LoginReturns) /\ WF_vars(ExecuteKwReturns)

\* The statuses of the endpoint's responses.
Statuses == {200, 400, 404, 500}

\* A request is being handled: GET awaits a remote call.
Pending == pc \in {"auth", "exec"}

\* C23: every request eventually produces exactly one JSON response, with
\* status 200, 400, 404 or 500: a request never stays without a response, and
\* the response, once produced, is the only one of its request.
C23_EveryRequestAnsweredOnce ==
    /\ [](req # NoRequest => (Pending \/ Done))
    /\ [](Pending => resp = NoResponse)
    /\ [](Done => (resp.kind # "none" /\ resp.status \in Statuses))
    /\ [][Done => (pc' = "idle" /\ resp' = NoResponse)]_vars
    /\ (Pending ~> Done)

\* A request that made two queries, each of two remote calls, has its response.
C23_AnsweredAfterRemoteCalls ==
    /\ Done
    /\ Len(calls) >= 4
    /\ resp.status = 200

\* C24: the line items displayed in the modal always belong to the selected
\* invoice: lines are never shown, with the loading flag cleared, in the modal
\* of an invoice other than the one whose response they came in, and no lines
\* are stored while no invoice is selected.
C24_ModalLinesOfSelectedInvoice ==
    /\ (invoiceId # NoInvoice /\ ~loadingInvoice /\ invoiceLines.set
            /\ invoiceLines.lines # <<>>) => settled.id = invoiceId
    /\ invoiceId = NoInvoice => ~invoiceLines.set

\* The first half of C24 alone: a late response shown in another modal.
C24_LateResponseInOtherModal ==
    (invoiceId # NoInvoice /\ ~loadingInvoice /\ invoiceLines.set
        /\ invoiceLines.lines # <<>>) => settled.id = invoiceId

\* The second half of C24 alone: a late response after the modal was closed.
C24_LateResponseAfterClose == invoiceId = NoInvoice => ~invoiceLines.set

(***************************************************************************)
(* The endpoint serving an invoice of many lines: invoice 1 with n listed  *)
(* product lines, n up to one more than the default limit of a query.      *)
(***************************************************************************)
BulkLines(n) ==
    {Line(100 + k, 1, "Part", <<"600", "Part">>, 1, 100, 100, "", TRUE) : k \in 1..n}

BulkErps ==
    {[partnerKnown |-> TRUE, moves |-> {m \in MovePool : m.id = 1}, lines |-> BulkLines(n)] :
        n \in 1..(DefaultLimit + 1)}

InitBulk ==
    /\ env \in Envs
    /\ erp \in BulkErps
    /\ req = NoRequest
    /\ pc = "idle"
    /\ query = NoQuery
    /\ mainPartner = NoPartner
    /\ calls = <<>>
    /\ resp = NoResponse
    /\ ops = <<>>
    /\ PageInit({FALSE}, {"en-GB"}, {Day(2026, 11, 5)})

SpecBulk == InitBulk /\ [][Next]_vars

\* The line ids that the invoice read answered with.
ListedLineIds == {l.id : l \in {x \in LinesOfRequested : x.inInvoiceTab}}

\* C25: when the invoice read returned a non-empty line-id list and the read by
\* id answered, the response holds exactly one normalized item for each id of
\* the list, whatever the length of the list.
C25_OneItemPerListedLine ==
    (InvoiceDone /\ HasList /\ Answered("moveRows") /\ Answered("linesRes")) =>
        /\ resp.kind = "items"
        /\ Len(resp.items) = Cardinality(ListedLineIds)
        /\ {resp.items[i].id : i \in 1..Len(resp.items)} = ListedLineIds
        /\ \A i \in 1..Len(resp.items) :
              \E l \in LinesOfRequested : resp.items[i] = NormalizeLine(l)

\* The buckets of the response whose key is name.
BucketsNamed(name) ==
    {i \in 1..Len(resp.stats.salesByAddress) : resp.stats.salesByAddress[i].key = name}

SeriesSum(series) == SumSeq([i \in 1..Len(series) |-> series[i].value])

\* C27: for any fetched data, year and period, in the year view and in the
\* month view, the values of the chart series sum to the KPI revenue of the
\* same selection.
C27_ChartSumIsRevenue ==
    data.set => SeriesSum(chartData) = filteredStats.revenue

\* C27 in the month view alone.
C27_MonthChartSumIsRevenue ==
    (data.set /\ viewBy # YearView) => SeriesSum(chartData) = filteredStats.revenue

\* C27 in the year view where the locale's short month names are the chart's.
C27_YearChartSumIsRevenueEnUs ==
    (data.set /\ viewBy = YearView /\ browser.locale = "en-US") =>
        SeriesSum(chartData) = filteredStats.revenue

\* C28: the server-side filtered query and the client-side filter of the
\* unfiltered fetch select the same lines of the same ERP, so the items of a
\* response do not depend on whether the filtered query faulted: the items
\* returned after the unfiltered fetch are those the filtered query selects.
C28_FallbackSelectsSameLines ==
    (InvoiceDone /\ Answered("rawLines")) =>
        /\ FilterLines(SearchRead(erp, RawLinesQuery(RequestedId)))
               = SearchRead(erp, SrvLinesQuery(RequestedId))
        /\ resp = ItemsJson(Items(SearchRead(erp, SrvLinesQuery(RequestedId))))

(***************************************************************************)
(* The page under the assumption that the browser's fetch of the           *)
(* statistics eventually settles: it answers or it throws.                 *)
(***************************************************************************)
FetchDataSettles ==
    \/ \E r \in StatsResponses : FetchDataOk(r)
    \/ \E r \in StatsResponses : FetchDataNotOk(r)
    \/ \E m \in FetchErrors : FetchDataThrew(m)

SpecModalFair == SpecModal /\ WF_vars(FetchDataSettles)

\* C29: after mount the loading flag is eventually cleared, whether the stats
\* fetch succeeds, returns an error status or throws; from then on exactly one
\* of data and error is set, and the flag, data and error do not change again
\* under any year change, period change, invoice click or modal close.
C29_LoadingClearsThenDataOrErrorFixed ==
    /\ <>(~loading)
    /\ [](~loading => (data.set # error.set))
    /\ [](loading => (~data.set /\ ~error.set))
    /\ [][~loading => (~loading' /\ data' = data /\ error' = error)]_vars

\* The statistics are shown in a year the user selected, the modal closed
\* again after an invoice request that failed with an error status.
C29_SettledEitherWay ==
    /\ ~loading
    /\ data.set
    /\ settled.how = "status"
    /\ invoiceId = NoInvoice
    /\ selectedYear = 2027

\* C30: changing the selected year always resets the period to the full year;
\* changing the period leaves the selected year unchanged; neither changes
\* data, error, the selected invoice or its lines; and the period is always
\* the full year or an index in 0..11.
C30_SelectorsFrame ==
    /\ [](viewBy \in (0..11) \cup {YearView})
    /\ [][/\ selectedYear' # selectedYear => viewBy' = YearView
          /\ (viewBy' # viewBy /\ viewBy' # YearView) => selectedYear' = selectedYear
          /\ (selectedYear' # selectedYear \/ viewBy' # viewBy) =>
                /\ data' = data
                /\ error' = error
                /\ invoiceId' = invoiceId
                /\ invoiceLines' = invoiceLines]_vars

\* The user changed the year and then the period while an invoice is selected
\* and its lines are stored.
C30_SelectionChangedUnderModal ==
    /\ selectedYear = 2027
    /\ viewBy = 0
    /\ invoiceId # NoInvoice
    /\ invoiceLines.set /\ invoiceLines.lines # <<>>

====
